---- MODULE Spec2Model ----
(***************************************************************************)
(* A model of the address engine of api/utils/address.py: the text         *)
(* normalizer clean_full_address and the hierarchical resolver             *)
(* parse_address.                                                          *)
(*                                                                         *)
(* Texts are TLA+ strings, read with Len, SubSeq and \o.  The characters   *)
(* are ASCII: on ASCII text Python's NFD normalization and the accent      *)
(* table of remove_accent change nothing, str.capitalize is the ASCII case *)
(* mapping, and \s, \d, \w, \b are the ASCII classes.  Indices into a text *)
(* that the code stores (largest_index, last_index) keep Python's 0-based  *)
(* numbering with -1 for "not found"; the helpers underneath are 1-based.  *)
(*                                                                         *)
(* A scan of a text is written over the set of positions where a match     *)
(* starts, so that the depth of a recursion is the number of matches and   *)
(* not the length of the text.  The({e : x \in {v}}) is "LET x == v IN e"  *)
(* with v evaluated once.                                                  *)
(***************************************************************************)
EXTENDS Integers, Sequences, FiniteSets, TLC

The(S) == CHOOSE r \in S : TRUE

MinOf(S) == CHOOSE x \in S : \A y \in S : x <= y

MaxOf(S) == CHOOSE x \in S : \A y \in S : x >= y

(***************************************************************************)
(* Characters and character classes                                        *)
(***************************************************************************)
Ch(s, i) == SubSeq(s, i, i)

Lowers == "abcdefghijklmnopqrstuvwxyz"

Uppers == "ABCDEFGHIJKLMNOPQRSTUVWXYZ"

Digits == "0123456789"

LowerSet == {Ch(Lowers, i) : i \in 1..Len(Lowers)}

UpperSet == {Ch(Uppers, i) : i \in 1..Len(Uppers)}

DigitSet == {Ch(Digits, i) : i \in 1..Len(Digits)}

\* \s of the re module, and the characters str.split and str.strip take for
\* blanks, on ASCII: space, \t, \n, \r, \f, and the characters 0x0b and
\* 0x1c to 0x1f, which are written here as they are
Whitespace == {" ", "\t", "\n", "\r", "\f", "", "", "", "", ""}

\* \w of the re module, on ASCII
WordSet == LowerSet \cup UpperSet \cup DigitSet \cup {"_"}

UpperOf ==
    [c \in LowerSet |-> Ch(Uppers, CHOOSE i \in 1..Len(Lowers) : Ch(Lowers, i) = c)]

LowerOf ==
    [c \in UpperSet |-> Ch(Lowers, CHOOSE i \in 1..Len(Uppers) : Ch(Uppers, i) = c)]

ToUpper(c) == IF c \in LowerSet THEN UpperOf[c] ELSE c

ToLower(c) == IF c \in UpperSet THEN LowerOf[c] ELSE c

RECURSIVE LowerRange(_, _, _)
LowerRange(s, a, b) ==
    IF a > b THEN ""
    ELSE IF a = b THEN ToLower(Ch(s, a))
    ELSE The({LowerRange(s, a, m) \o LowerRange(s, m + 1, b) : m \in {(a + b) \div 2}})

\* str.lower
LowerStr(s) == The({LowerRange(t, 1, Len(t)) : t \in {s}})

\* s[i:] of Python, for a 1-based i
From(s, i) == SubSeq(s, i, Len(s))

\* whether the literal w stands in s at the 1-based position i
At(s, i, w) == i + Len(w) - 1 <= Len(s) /\ SubSeq(s, i, i + Len(w) - 1) = w

\* the same, whatever the case of the letters
AtNoCase(s, i, w) ==
    /\ i + Len(w) - 1 <= Len(s)
    /\ \A k \in 1..Len(w) : ToLower(Ch(s, i + k - 1)) = ToLower(Ch(w, k))

\* \b before the 1-based position i of s (i may be Len(s) + 1)
Boundary(s, i) ==
    LET before == i > 1 /\ Ch(s, i - 1) \in WordSet
        after == i <= Len(s) /\ Ch(s, i) \in WordSet
    IN before # after

\* the length of the longest run of characters of the class cls from position i
RunLen(s, i, cls) ==
    IF i > Len(s) THEN 0
    ELSE (CHOOSE j \in i..(Len(s) + 1) :
             /\ (j = Len(s) + 1 \/ Ch(s, j) \notin cls)
             /\ \A k \in i..(j - 1) : Ch(s, k) \in cls) - i

\* the length of the longest run of characters outside cls from position i
RunLenNot(s, i, cls) ==
    IF i > Len(s) THEN 0
    ELSE (CHOOSE j \in i..(Len(s) + 1) :
             /\ (j = Len(s) + 1 \/ Ch(s, j) \in cls)
             /\ \A k \in i..(j - 1) : Ch(s, k) \notin cls) - i

(***************************************************************************)
(* The regular expressions of the normalizer, and re.sub.  A pattern is a  *)
(* record; Match gives, for a 1-based position i of the text, the length   *)
(* of the match that starts there (0: none; no pattern of the normalizer   *)
(* matches the empty string) and the text that replaces it.                *)
(***************************************************************************)
NoMatch == [len |-> 0, out |-> ""]

\* lit1|lit2|..., IGNORECASE, and where re.bounded a \b after every literal
\* but the last and before every literal but the first: the first
\* alternative that matches at i
RECURSIVE MatchAlts(_, _, _, _)
MatchAlts(re, text, i, k) ==
    IF k > Len(re.lits) THEN NoMatch
    ELSE IF /\ Len(re.lits[k]) > 0
            /\ AtNoCase(text, i, re.lits[k])
            /\ ((re.bounded /\ k > 1) => Boundary(text, i))
            /\ ((re.bounded /\ k < Len(re.lits)) => Boundary(text, i + Len(re.lits[k])))
         THEN [len |-> Len(re.lits[k]), out |-> re.repl]
         ELSE MatchAlts(re, text, i, k + 1)

\* \b(head1|head2)\s*(\d+)\b, IGNORECASE, replaced by out + the digits
\* (\s* only where re.spaces): the first head that leads to a match
RECURSIVE MatchUnit(_, _, _, _)
MatchUnit(re, text, i, k) ==
    IF k > Len(re.heads) \/ ~Boundary(text, i) THEN NoMatch
    ELSE IF ~AtNoCase(text, i, re.heads[k]) THEN MatchUnit(re, text, i, k + 1)
    ELSE The({
        The({ IF d >= 1 /\ Boundary(text, d0 + d)
              THEN [len |-> d0 + d - i, out |-> re.out \o SubSeq(text, d0, d0 + d - 1)]
              ELSE MatchUnit(re, text, i, k + 1)
              : d \in {RunLen(text, d0, DigitSet)} })
        : d0 \in {IF re.spaces
                  THEN i + Len(re.heads[k]) + RunLen(text, i + Len(re.heads[k]), Whitespace)
                  ELSE i + Len(re.heads[k])} })

\* \bQ0+(\d+)\b replaced by Q + group 1: 0+ is greedy and leaves \d+ one digit
MatchZeros(re, text, i) ==
    IF ~(Boundary(text, i) /\ At(text, i, re.letter) /\ At(text, i + 1, "0"))
    THEN NoMatch
    ELSE The({
        IF d >= 2 /\ Boundary(text, i + 1 + d)
        THEN The({ [len |-> 1 + d,
                    out |-> re.letter
                            \o SubSeq(text, i + 1 + (IF z < d - 1 THEN z ELSE d - 1), i + d)]
                   : z \in {RunLen(text, i + 1, {"0"})} })
        ELSE NoMatch
        : d \in {RunLen(text, i + 1, DigitSet)} })

\* \s*,\s* replaced by ", "
MatchComma(text, i) ==
    The({ IF At(text, i + s, ",")
          THEN [len |-> s + 1 + RunLen(text, i + s + 1, Whitespace), out |-> ", "]
          ELSE NoMatch
          : s \in {RunLen(text, i, Whitespace)} })

Match(re, text, i) ==
    CASE re.kind = "alts" -> MatchAlts(re, text, i, 1)
      [] re.kind = "unit" -> MatchUnit(re, text, i, 1)
      [] re.kind = "zeros" -> MatchZeros(re, text, i)
      [] re.kind = "comma" -> MatchComma(text, i)
      [] re.kind = "spaces" -> [len |-> RunLen(text, i, Whitespace), out |-> " "]
      [] re.kind = "literal" ->
            [len |-> IF At(text, i, re.lit) THEN Len(re.lit) ELSE 0, out |-> re.repl]
      [] re.kind = "class" ->
            [len |-> IF Ch(text, i) \in re.chars THEN 1 ELSE 0, out |-> re.repl]

\* re.sub from the position i on, pos being the positions where the pattern
\* matches: the leftmost match at or after i, replaced, then on from its end
RECURSIVE ReSubFrom(_, _, _, _)
ReSubFrom(re, text, pos, i) ==
    IF \A j \in pos : j < i THEN From(text, i)
    ELSE The({
        The({ SubSeq(text, i, p - 1) \o m.out \o ReSubFrom(re, text, pos, p + m.len)
              : m \in {Match(re, text, p)} })
        : p \in {MinOf({j \in pos : j >= i})} })

ReSub(re, text) ==
    The({ The({ ReSubFrom(r, t, pos, 1)
                : pos \in {{j \in 1..Len(t) : Match(r, t, j).len > 0}} })
          : r \in {re}, t \in {text} })

ReSpaces == [kind |-> "spaces"]

\* the length of the longest run of characters of the class cls that ends s
RunLenBack(s, cls) ==
    CHOOSE n \in 0..Len(s) :
        /\ (n = Len(s) \/ Ch(s, Len(s) - n) \notin cls)
        /\ \A k \in 0..(n - 1) : Ch(s, Len(s) - k) \in cls

\* str.strip
Strip(s) ==
    The({ The({ SubSeq(t, a, Len(t) - RunLenBack(From(t, a), Whitespace))
                : a \in {1 + RunLen(t, 1, Whitespace)} })
          : t \in {s} })

\* str.capitalize
Capitalize(w) ==
    IF w = "" THEN w ELSE ToUpper(Ch(w, 1)) \o LowerStr(From(w, 2))

\* " ".join(w.capitalize() for w in text[i:].split()), for a 1-based i
RECURSIVE JoinCapFrom(_, _, _)
JoinCapFrom(text, i, first) ==
    The({
        The({ IF n = 0 THEN ""
              ELSE (IF first THEN "" ELSE " ")
                   \o Capitalize(SubSeq(text, a, a + n - 1))
                   \o JoinCapFrom(text, a + n, FALSE)
              : n \in {RunLenNot(text, a, Whitespace)} })
        : a \in {i + RunLen(text, i, Whitespace)} })

(***************************************************************************)
(* The tables of the module.  A Python dict is the sequence of its items   *)
(* in insertion order, which is the order its loops visit them in.         *)
(***************************************************************************)
DICT_NORM_ABBREV ==
    << [key |-> "Tp ", synonyms |-> <<"Tp.", "Tp:">>],
       [key |-> "Tt ", synonyms |-> <<"Tt.", "Tt:">>],
       [key |-> "Q ", synonyms |-> <<"Q.", "Q:">>],
       [key |-> "H ", synonyms |-> <<"H.", "H:">>],
       [key |-> "X ", synonyms |-> <<"X.", "X:">>],
       [key |-> "P ", synonyms |-> <<"P.", "P:">>] >>

DICT_NORM_CITY_DASH ==
    << [key |-> " Ba Ria - Vung Tau ",
        synonyms |-> <<"Ba Ria Vung Tau", "Ba Ria-Vung Tau", "Brvt", "Br - Vt">>],
       [key |-> " Phan Rang - Thap Cham ", synonyms |-> <<"Phan Rang Thap Cham">>],
       [key |-> " Thua Thien Hue ", synonyms |-> <<"Thua Thien - Hue">>],
       [key |-> " Ho Chi Minh ", synonyms |-> <<"Sai Gon", "Tphcm", "Hcm", "Sg">>],
       [key |-> " Da Nang ", synonyms |-> <<"Quang Nam-Da Nang", "Quang Nam - Da Nang">>] >>

ADDRESS_PUNCTUATIONS == {".", ",", "!", "?", ";", ":", "-", "_", "(", ")", "\"", "'"}

\* the character class [g.;,\s]
SPECIAL_ENDING == {"g", ".", ";", ","} \cup Whitespace

(***************************************************************************)
(* The steps of the normalizer                                             *)
(***************************************************************************)
init_cap_words(text) ==
    The({ IF t = "" THEN t ELSE JoinCapFrom(t, 1, TRUE) : t \in {text} })

\* NFD, the combining marks and the accent table leave ASCII text as it is
remove_accent(text) == text

\* one pass of the loop of clean_dash_address: r"\b|\b".join(synonyms),
\* IGNORECASE, replaced by key
RECURSIVE DashFrom(_, _, _)
DashFrom(text, dict_norm_city_dash, k) ==
    IF k > Len(dict_norm_city_dash) THEN text
    ELSE DashFrom(ReSub([kind |-> "alts",
                         lits |-> dict_norm_city_dash[k].synonyms,
                         bounded |-> TRUE,
                         repl |-> dict_norm_city_dash[k].key],
                        text),
                  dict_norm_city_dash, k + 1)

clean_dash_address(text, dict_norm_city_dash) ==
    DashFrom(text, dict_norm_city_dash, 1)

\* one pass of the loop of clean_abbrev_address: "(" + "|".join(synonyms) + ")",
\* IGNORECASE, replaced by key.capitalize()
RECURSIVE AbbrevFrom(_, _, _)
AbbrevFrom(text, dict_norm_abbrev, k) ==
    IF k > Len(dict_norm_abbrev) THEN text
    ELSE AbbrevFrom(ReSub([kind |-> "alts",
                           lits |-> dict_norm_abbrev[k].synonyms,
                           bounded |-> FALSE,
                           repl |-> Capitalize(dict_norm_abbrev[k].key)],
                          text),
                    dict_norm_abbrev, k + 1)

clean_abbrev_address(text, dict_norm_abbrev) ==
    Strip(ReSub(ReSpaces, AbbrevFrom(text, dict_norm_abbrev, 1)))

clean_digit_district(text) ==
    ReSub([kind |-> "zeros", letter |-> "Q"],
          ReSub([kind |-> "unit", heads |-> <<"q", "quan">>, spaces |-> TRUE, out |-> "Q"],
                text))

clean_digit_ward(text) ==
    ReSub([kind |-> "zeros", letter |-> "P"],
          ReSub([kind |-> "unit", heads |-> <<"f">>, spaces |-> FALSE, out |-> "P"],
                ReSub([kind |-> "unit", heads |-> <<"p", "phuong">>, spaces |-> TRUE,
                       out |-> "P"],
                      text)))

remove_spare_space(text) == ReSub(ReSpaces, Strip(text))

remove_punctuation(text, punctuations) ==
    IF punctuations = {} THEN remove_spare_space(text)
    ELSE remove_spare_space(ReSub([kind |-> "class", chars |-> punctuations, repl |-> ""],
                                  text))

add_space_separator(text) ==
    init_cap_words(
        Strip(ReSub(ReSpaces,
                    ReSub([kind |-> "class", chars |-> {".", "_", "-"}, repl |-> " "],
                          ReSub([kind |-> "comma"], text)))))

\* the n-th statement of clean_full_address, applied to text
CleanStep(n, text) ==
    CASE n = 1 -> init_cap_words(text)
      [] n = 2 -> remove_accent(text)
      [] n = 3 -> clean_abbrev_address(text, DICT_NORM_ABBREV)
      [] n = 4 -> remove_spare_space(text)
      [] n = 5 -> clean_digit_district(text)
      [] n = 6 -> clean_digit_ward(text)
      [] n = 7 -> clean_dash_address(text, DICT_NORM_CITY_DASH)
      [] n = 8 -> remove_punctuation(text, ADDRESS_PUNCTUATIONS)
      [] n = 9 -> add_space_separator(text)
      [] n = 10 -> clean_digit_district(text)
      [] n = 11 -> clean_digit_ward(text)

NumCleanSteps == 11

\* the text after the statements n, n + 1, ... of clean_full_address
RECURSIVE CleanFrom(_, _)
CleanFrom(n, text) ==
    IF n > NumCleanSteps THEN text
    ELSE The({ CleanFrom(n + 1, t) : t \in {CleanStep(n, text)} })

clean_full_address(text) == CleanFrom(1, text)

(***************************************************************************)
(* The string helpers of the resolver                                      *)
(***************************************************************************)
\* str.rfind: the 0-based index of the last occurrence of w in s, or -1
rfind(s, w) ==
    The({ IF occ = {} THEN -1 ELSE MaxOf(occ) - 1
          : occ \in {{i \in 1..(Len(s) - Len(w) + 1) : At(s, i, w)}} })

\* str.endswith
EndsWith(s, w) == Len(w) <= Len(s) /\ SubSeq(s, Len(s) - Len(w) + 1, Len(s)) = w

\* str.replace(old, new), old not empty
Replace(s, old, new) == ReSub([kind |-> "literal", lit |-> old, repl |-> new], s)

\* The pattern re.compile(word + ending) matches at the 1-based position i:
\* the alias, then (where the pattern has the terminator class) one
\* character of it.  The aliases of the model hold letters, digits and
\* spaces, which a regular expression reads literally.
PatternAt(text, pattern, i) ==
    /\ At(text, i, pattern.word)
    /\ pattern.anchored =>
          /\ i + Len(pattern.word) <= Len(text)
          /\ Ch(text, i + Len(pattern.word)) \in pattern.ending

PatternLen(pattern) == Len(pattern.word) + (IF pattern.anchored THEN 1 ELSE 0)

\* the start of the last match re.finditer yields, searching from the 1-based
\* position i: the leftmost match, then the leftmost one after its end (an
\* empty match is followed by the search one character on)
RECURSIVE LastMatchFrom(_, _, _, _)
LastMatchFrom(pos, len, i, last) ==
    IF \A j \in pos : j < i THEN last
    ELSE The({ LastMatchFrom(pos, len, p + (IF len = 0 THEN 1 ELSE len), p)
               : p \in {MinOf({j \in pos : j >= i})} })

last_index_of_regex(text, pattern) ==
    The({ LastMatchFrom(pos, PatternLen(pattern), 1, 0) - 1
          : pos \in {{i \in 1..(Len(text) + 1) : PatternAt(text, pattern, i)}} })

\* a variant of replace_last_occurrences that rewrites the first occurrence
replace_first_occurrence(target_str, substr, replacement) ==
    IF substr = "" THEN target_str
    ELSE IF \A i \in 1..Len(target_str) : ~At(target_str, i, substr) THEN target_str
    ELSE The({ SubSeq(target_str, 1, first - 1) \o replacement
               \o From(target_str, first + Len(substr))
               : first \in {MinOf({i \in 1..Len(target_str) : At(target_str, i, substr)})} })

replace_last_occurrences(target_str, substr, replacement) ==
    IF substr = "" THEN target_str
    ELSE The({ IF last_index = -1 THEN target_str
               ELSE SubSeq(target_str, 1, last_index) \o replacement
                    \o From(target_str, last_index + Len(substr) + 1)
               : last_index \in {rfind(target_str, substr)} })

(***************************************************************************)
(* The gazetteer.  Each of db_provinces, db_districts and db_wards is a    *)
(* dict, modelled as the sequence of its items (key and fields) in         *)
(* insertion order.                                                        *)
(***************************************************************************)
Has(db, key) == \E i \in 1..Len(db) : db[i].key = key

\* db[key], for a key of db
Get(db, key) == db[CHOOSE i \in 1..Len(db) : db[i].key = key]

\* db.get(key, {}).get('name', "")
GetName(db, key) == IF Has(db, key) THEN Get(db, key).name ELSE ""

RECURSIVE KeysFrom(_, _)
KeysFrom(db, i) == IF i > Len(db) THEN << >> ELSE <<db[i].key>> \o KeysFrom(db, i + 1)

\* the keys of db in the order db.items() yields them
Keys(db) == KeysFrom(db, 1)

(***************************************************************************)
(* The scan of a stage.  best is what the loop has kept so far: the unit   *)
(* (founded_province, founded_district or founded_ward), choose_word and   *)
(* largest_index; raised is set when db[unit] raises KeyError.             *)
(***************************************************************************)
NoneFound == [unit |-> "", choose_word |-> "", largest_index |-> -1, raised |-> FALSE]

\* the condition of the if of each loop
Better(last_index, word, largest_index, choose_word) ==
    \/ last_index > largest_index
    \/ /\ last_index = largest_index
       /\ largest_index > -1
       /\ Len(word) > Len(choose_word)

\* the index the loop of a stage computes for an alias
LastIndex(mode, address, word) ==
    CASE mode = "rfind" -> rfind(address, word)
      [] mode = "anchored" ->
            last_index_of_regex(address,
                [word |-> word, anchored |-> TRUE, ending |-> SPECIAL_ENDING])
      [] mode = "plain" ->
            last_index_of_regex(address,
                [word |-> word, anchored |-> FALSE, ending |-> {}])

\* the inner loop: for word in db[unit]['words']
RECURSIVE ScanWords(_, _, _, _, _, _)
ScanWords(mode, address, unit, words, k, best) ==
    IF k > Len(words) THEN best
    ELSE The({
        ScanWords(mode, address, unit, words, k + 1,
                  IF Better(last_index, words[k], best.largest_index, best.choose_word)
                  THEN [unit |-> unit, choose_word |-> words[k],
                        largest_index |-> last_index, raised |-> FALSE]
                  ELSE best)
        : last_index \in {LastIndex(mode, address, words[k])} })

\* the outer loop: for unit in units, with db[unit] looked up at each turn
RECURSIVE ScanUnits(_, _, _, _, _, _)
ScanUnits(mode, address, db, units, j, best) ==
    IF j > Len(units) THEN best
    ELSE IF ~Has(db, units[j]) THEN [best EXCEPT !.raised = TRUE]
    ELSE The({ ScanUnits(mode, address, db, units, j + 1, b)
               : b \in {ScanWords(mode, address, units[j], Get(db, units[j]).words, 1, best)} })

Scan(mode, address, db, units) == ScanUnits(mode, address, db, units, 1, NoneFound)

(***************************************************************************)
(* The inputs of the model: gazetteers and raw addresses                   *)
(***************************************************************************)
\* A strict three-level tree.  "Q1" is an alias in both provinces, "Ho Chi"
\* and "Ho Chi Minh" start at the same place, and "Q1" starts "Q10".
TreeGazetteer ==
    [db_provinces |->
       << [key |-> "ha_noi", id |-> 1, name |-> "Ha Noi",
           words |-> <<"Ha Noi">>, district |-> <<"hn_q1">>],
          [key |-> "ho_chi_minh", id |-> 79, name |-> "Ho Chi Minh",
           words |-> <<"Ho Chi", "Ho Chi Minh">>,
           district |-> <<"hcm_q1", "hcm_q10">>] >>,
     db_districts |->
       << [key |-> "hcm_q1", name |-> "Quan 1", words |-> <<"Q1">>,
           province |-> 79, ward |-> <<"hcm_q1_p2">>],
          [key |-> "hcm_q10", name |-> "Quan 10", words |-> <<"Q10">>,
           province |-> 79, ward |-> <<"hcm_q10_p2">>],
          [key |-> "hn_q1", name |-> "Quan 1 Ha Noi", words |-> <<"Q1">>,
           province |-> 1, ward |-> << >>] >>,
     db_wards |->
       << [key |-> "hcm_q1_p2", name |-> "Phuong 2", words |-> <<"P2">>],
          [key |-> "hcm_q10_p2", name |-> "Phuong 2", words |-> <<"P2">>] >>]

\* A gazetteer with missing entries: hcm_q3 is listed under the province and
\* hcm_q1_p9 under the district, and neither exists; the parent of hcm_q10
\* (id 80) is no province.
BrokenGazetteer ==
    [db_provinces |->
       << [key |-> "ho_chi_minh", id |-> 79, name |-> "Ho Chi Minh",
           words |-> <<"Ho Chi Minh">>, district |-> <<"hcm_q1", "hcm_q3">>] >>,
     db_districts |->
       << [key |-> "hcm_q1", name |-> "Quan 1", words |-> <<"Q1">>,
           province |-> 79, ward |-> <<"hcm_q1_p9">>],
          [key |-> "hcm_q10", name |-> "Quan 10", words |-> <<"Q10">>,
           province |-> 80, ward |-> << >>] >>,
     db_wards |->
       << [key |-> "hcm_q1_p2", name |-> "Phuong 2", words |-> <<"P2">>] >>]

\* A gazetteer with an alias that overlaps itself: in "Q1 Q1 Q1" the alias
\* "Q1 Q1" occurs at 0 and at 3, and the two occurrences share a "Q1".
OverlapGazetteer ==
    [db_provinces |->
       << [key |-> "ha_noi", id |-> 1, name |-> "Ha Noi",
           words |-> <<"Ha Noi">>, district |-> <<"hn_a", "hn_b">>] >>,
     db_districts |->
       << [key |-> "hn_a", name |-> "Khu A", words |-> <<"Q1 Q1">>,
           province |-> 1, ward |-> << >>],
          [key |-> "hn_b", name |-> "Khu B", words |-> <<"Q1 Q1 Q1">>,
           province |-> 1, ward |-> << >>] >>,
     db_wards |-> << >>]

Gazetteers == {TreeGazetteer, BrokenGazetteer, OverlapGazetteer}

\* the parts a raw address is written with
Tokens == {"le loi", "q.1", "q10", "p.2", "hcm", "ha noi", "thanh pho"}

\* the most parts in a raw address
MaxTokens == 3

\* the raw addresses of exactly n parts, joined by ", "
RECURSIVE Joined(_)
Joined(n) ==
    IF n = 0 THEN {""}
    ELSE IF n = 1 THEN Tokens
    ELSE {a \o ", " \o t : a \in Joined(n - 1), t \in Tokens}

RawAddresses == UNION {Joined(n) : n \in 0..MaxTokens}

\* the characters of the texts the normalizer is run on by itself
CleanAlphabet == {"s", "g", "q", "1", "-", " "}

\* the longest such text
MaxLen == 3

RECURSIVE Strings(_)
Strings(n) ==
    IF n = 0 THEN {""} ELSE {s \o c : s \in Strings(n - 1), c \in CleanAlphabet}

RawTexts == UNION {Strings(n) : n \in 0..MaxLen}

(***************************************************************************)
(* The state                                                               *)
(***************************************************************************)
VARIABLES
    input_address,     \* parse_address: the argument
    db_provinces,      \* parse_address: the argument
    db_districts,      \* parse_address: the argument
    db_wards,          \* parse_address: the argument
    address,           \* parse_address: the working address
    founded_province,  \* parse_address: a key of db_provinces, from line 435 on a name
    founded_district,  \* parse_address: a key of db_districts, from line 436 on a name
    founded_ward,      \* parse_address: a key of db_wards, from line 437 on a name
    choose_word,       \* parse_address: the alias the scan has kept
    largest_index,     \* parse_address: its index
    modified_address,  \* parse_address: the value returned
    pc,                \* parse_address: the stage to run next
    text,              \* clean_full_address: its variable text
    step,              \* clean_full_address: the statement to run next (1..11)
    call,              \* which call of clean_full_address is running (0: none)
    first_result       \* what the first call returned

parse_vars ==
    <<input_address, db_provinces, db_districts, db_wards, address, founded_province,
      founded_district, founded_ward, choose_word, largest_index, modified_address, pc>>

clean_vars == <<text, step, call, first_result>>

vars == <<parse_vars, clean_vars>>

(***************************************************************************)
(* parse_address, a stage at a time.  special_ending is SPECIAL_ENDING.    *)
(***************************************************************************)
\* a variant of DistrictUnits that visits every district, province or not
DistrictUnitsAll(provinces, districts, province) == Keys(districts)

\* the units the district loop visits and how it matches an alias
DistrictUnits(provinces, districts, province) ==
    IF province # "" THEN Get(provinces, province).district ELSE Keys(districts)

DistrictMode(province) == IF province # "" THEN "anchored" ELSE "plain"

\* a variant of InferProvince that takes the first province of the gazetteer
InferProvinceFirst(provinces, province_id) ==
    IF provinces = << >> THEN "" ELSE provinces[1].key

\* a variant of InferProvince that infers nothing
InferProvinceNone(provinces, province_id) == ""

\* next((key for key, value in db_provinces.items() if value['id'] == province_id), "")
InferProvince(provinces, province_id) ==
    IF \E i \in 1..Len(provinces) : provinces[i].id = province_id
    THEN provinces[MinOf({i \in 1..Len(provinces) : provinces[i].id = province_id})].key
    ELSE ""

\* lines 363-364
StripThanhPho(addr) ==
    IF EndsWith(addr, "Thanh Pho ,") THEN Replace(addr, "Thanh Pho ,", "") ELSE addr

ParseIdle ==
    /\ input_address = "" /\ address = "" /\ modified_address = ""
    /\ db_provinces = << >> /\ db_districts = << >> /\ db_wards = << >>
    /\ founded_province = "" /\ founded_district = "" /\ founded_ward = ""
    /\ choose_word = "" /\ largest_index = -1 /\ pc = "idle"

CleanIdle == text = "" /\ step = 0 /\ call = 0 /\ first_result = ""

\* a call parse_address(input_address, db_provinces, db_districts, db_wards, SPECIAL_ENDING)
Init ==
    /\ input_address \in RawAddresses
    /\ \E g \in Gazetteers :
          /\ db_provinces = g.db_provinces
          /\ db_districts = g.db_districts
          /\ db_wards = g.db_wards
    /\ address = "" /\ modified_address = ""
    /\ founded_province = "" /\ founded_district = "" /\ founded_ward = ""
    /\ choose_word = "" /\ largest_index = -1
    /\ pc = "start"
    /\ CleanIdle

\* lines 331-339
Preprocess ==
    /\ pc = "start"
    /\ address' = clean_full_address(input_address) \o ","
    /\ founded_province' = "" /\ founded_district' = "" /\ founded_ward' = ""
    /\ choose_word' = "" /\ largest_index' = -1
    /\ pc' = "province"
    /\ UNCHANGED <<input_address, db_provinces, db_districts, db_wards, modified_address>>
    /\ UNCHANGED clean_vars

\* lines 341-364
ProvinceStage ==
    /\ pc = "province"
    /\ \E s \in {Scan("rfind", address, db_provinces, Keys(db_provinces))} :
          /\ founded_province' = s.unit
          /\ choose_word' = s.choose_word
          /\ largest_index' = s.largest_index
          /\ address' = StripThanhPho(IF s.unit # ""
                                      THEN replace_last_occurrences(address, s.choose_word, "")
                                      ELSE address)
    /\ pc' = "district"
    /\ UNCHANGED <<input_address, db_provinces, db_districts, db_wards,
                   founded_district, founded_ward, modified_address>>
    /\ UNCHANGED clean_vars

\* lines 366-409
DistrictStage ==
    /\ pc = "district"
    /\ \E s \in {Scan(DistrictMode(founded_province), address, db_districts,
                      DistrictUnits(db_provinces, db_districts, founded_province))} :
          /\ founded_district' = s.unit
          /\ choose_word' = s.choose_word
          /\ largest_index' = s.largest_index
          /\ IF s.raised
             THEN /\ pc' = "raised"
                  /\ UNCHANGED <<address, founded_province>>
             ELSE /\ pc' = "ward"
                  /\ address' = IF s.unit # ""
                                THEN replace_last_occurrences(address, s.choose_word, "")
                                ELSE address
                  /\ founded_province' =
                        IF s.unit # "" /\ founded_province = ""
                        THEN InferProvince(db_provinces, Get(db_districts, s.unit).province)
                        ELSE founded_province
    /\ UNCHANGED <<input_address, db_provinces, db_districts, db_wards,
                   founded_ward, modified_address>>
    /\ UNCHANGED clean_vars

\* a variant of WardStage that gives up the district when it finds no ward
WardStageBacktracking ==
    /\ pc = "ward"
    /\ founded_district # ""
    /\ \E s \in {Scan("anchored", address, db_wards,
                      Get(db_districts, founded_district).ward)} :
          /\ founded_ward' = s.unit
          /\ choose_word' = s.choose_word
          /\ largest_index' = s.largest_index
          /\ founded_district' = IF s.unit = "" THEN "" ELSE founded_district
          /\ IF s.raised
             THEN /\ pc' = "raised"
                  /\ UNCHANGED address
             ELSE /\ pc' = "assemble"
                  /\ address' = IF s.unit # ""
                                THEN replace_last_occurrences(address, s.choose_word, "")
                                ELSE address
    /\ UNCHANGED <<input_address, db_provinces, db_districts, db_wards,
                   founded_province, modified_address>>
    /\ UNCHANGED clean_vars

\* lines 411-432, a district found
WardStage ==
    /\ pc = "ward"
    /\ founded_district # ""
    /\ \E s \in {Scan("anchored", address, db_wards,
                      Get(db_districts, founded_district).ward)} :
          /\ founded_ward' = s.unit
          /\ choose_word' = s.choose_word
          /\ largest_index' = s.largest_index
          /\ IF s.raised
             THEN /\ pc' = "raised"
                  /\ UNCHANGED address
             ELSE /\ pc' = "assemble"
                  /\ address' = IF s.unit # ""
                                THEN replace_last_occurrences(address, s.choose_word, "")
                                ELSE address
    /\ UNCHANGED <<input_address, db_provinces, db_districts, db_wards,
                   founded_province, founded_district, modified_address>>
    /\ UNCHANGED clean_vars

\* lines 411-415, no district found
WardSkipped ==
    /\ pc = "ward"
    /\ founded_district = ""
    /\ choose_word' = "" /\ largest_index' = -1
    /\ pc' = "assemble"
    /\ UNCHANGED <<input_address, db_provinces, db_districts, db_wards, address,
                   founded_province, founded_district, founded_ward, modified_address>>
    /\ UNCHANGED clean_vars

\* lines 434-440
Assemble ==
    /\ pc = "assemble"
    /\ founded_province' = GetName(db_provinces, founded_province)
    /\ founded_district' = GetName(db_districts, founded_district)
    /\ founded_ward' = GetName(db_wards, founded_ward)
    /\ modified_address' = address \o " " \o founded_ward' \o ", " \o founded_district'
                           \o ", " \o founded_province'
    /\ pc' = "done"
    /\ UNCHANGED <<input_address, db_provinces, db_districts, db_wards, address,
                   choose_word, largest_index>>
    /\ UNCHANGED clean_vars

Next ==
    \/ Preprocess
    \/ ProvinceStage
    \/ DistrictStage
    \/ WardStage
    \/ WardSkipped
    \/ Assemble

Spec == Init /\ [][Next]_vars

(***************************************************************************)
(* clean_full_address, a statement at a time, called on a text and then on *)
(* what it returned                                                        *)
(***************************************************************************)
InitClean ==
    /\ text \in RawTexts
    /\ step = 1
    /\ call = 1
    /\ first_result = ""
    /\ ParseIdle

\* the statement step of lines 313-324
CleanStatement ==
    /\ call \in {1, 2}
    /\ step <= NumCleanSteps
    /\ text' = CleanStep(step, text)
    /\ step' = step + 1
    /\ UNCHANGED <<call, first_result>>
    /\ UNCHANGED parse_vars

\* the first call returns (line 326) and its result is passed to a second call
CleanAgain ==
    /\ call = 1
    /\ step = NumCleanSteps + 1
    /\ first_result' = text
    /\ call' = 2
    /\ step' = 1
    /\ UNCHANGED text
    /\ UNCHANGED parse_vars

NextClean == CleanStatement \/ CleanAgain

SpecClean == InitClean /\ [][NextClean]_vars

(***************************************************************************)
(* What the claims speak of, stated without the loops of the code          *)
(***************************************************************************)
\* the 1-based positions where the alias occurs in addr as a stage reads it:
\* anywhere ("rfind", "plain"), or followed by a terminator ("anchored")
Occurrences(mode, addr, word) ==
    {i \in 1..(Len(addr) - Len(word) + 1) :
        /\ At(addr, i, word)
        /\ mode = "anchored" =>
              /\ i + Len(word) <= Len(addr)
              /\ Ch(addr, i + Len(word)) \in SPECIAL_ENDING}

\* the 0-based index of the rightmost occurrence, or -1.  This is what the
\* level-matching rule speaks of.  str.rfind returns it; last_index_of_regex
\* returns the start of the last match of a scan whose matches do not
\* overlap, which for an alias that overlaps itself is an earlier occurrence.
RightmostOccurrence(mode, addr, word) ==
    IF Occurrences(mode, addr, word) = {} THEN -1
    ELSE MaxOf(Occurrences(mode, addr, word)) - 1

\* addr without the n characters from the 0-based index i on
Cut(addr, i, n) == SubSeq(addr, 1, i) \o From(addr, i + n + 1)

\* the aliases of the units, each with its owner and its place in the scan
Candidates(db, units) ==
    UNION {{[unit |-> units[j], word |-> Get(db, units[j]).words[k], j |-> j, k |-> k]
            : k \in 1..Len(Get(db, units[j]).words)}
           : j \in {i \in 1..Len(units) : Has(db, units[i])}}

\* c comes before d in the scan
Earlier(c, d) == c.j < d.j \/ (c.j = d.j /\ c.k < d.k)

\* c is the candidate the level-matching rule picks
Wins(mode, addr, cands, c) ==
    /\ RightmostOccurrence(mode, addr, c.word) >= 0
    /\ \A d \in cands :
          \/ d = c
          \/ RightmostOccurrence(mode, addr, d.word) < RightmostOccurrence(mode, addr, c.word)
          \/ /\ RightmostOccurrence(mode, addr, d.word) = RightmostOccurrence(mode, addr, c.word)
             /\ Len(d.word) < Len(c.word)
          \/ /\ RightmostOccurrence(mode, addr, d.word) = RightmostOccurrence(mode, addr, c.word)
             /\ Len(d.word) = Len(c.word)
             /\ Earlier(c, d)

\* what a stage must leave behind under the rule: the owner of the winning
\* alias, the alias and its index, or nothing when no alias occurs
RuleHolds(mode, addr, cands, unit, word, index) ==
    IF \E c \in cands : RightmostOccurrence(mode, addr, c.word) >= 0
    THEN \E c \in cands :
            /\ Wins(mode, addr, cands, c)
            /\ unit = c.unit
            /\ word = c.word
            /\ index = RightmostOccurrence(mode, addr, c.word)
    ELSE unit = "" /\ index = -1

\* a step of each stage that ends without KeyError
ProvinceStep == pc = "province" /\ pc' = "district"

DistrictStep == pc = "district" /\ pc' = "ward"

WardStep == pc = "ward" /\ founded_district # "" /\ pc' = "assemble"

\* the keys of the districts listed under a province
OwnDistricts(province) ==
    {Get(db_provinces, province).district[j]
     : j \in 1..Len(Get(db_provinces, province).district)}

AllWords(db) == UNION {{db[i].words[k] : k \in 1..Len(db[i].words)} : i \in 1..Len(db)}

\* addr holds no alias of any unit of the gazetteer
NoAlias(addr) ==
    \A w \in AllWords(db_provinces) \cup AllWords(db_districts) \cup AllWords(db_wards) :
        Occurrences("plain", addr, w) = {}

\* the gazetteer is a strict three-level tree with non-empty names
StrictTree ==
    /\ \A i, j \in 1..Len(db_provinces) :
          (db_provinces[i].key = db_provinces[j].key \/ db_provinces[i].id = db_provinces[j].id)
          => i = j
    /\ \A i, j \in 1..Len(db_districts) : db_districts[i].key = db_districts[j].key => i = j
    /\ \A i, j \in 1..Len(db_wards) : db_wards[i].key = db_wards[j].key => i = j
    /\ \A i \in 1..Len(db_provinces) :
          /\ db_provinces[i].name # ""
          /\ \A j \in 1..Len(db_provinces[i].district) :
                /\ Has(db_districts, db_provinces[i].district[j])
                /\ Get(db_districts, db_provinces[i].district[j]).province = db_provinces[i].id
    /\ \A i \in 1..Len(db_districts) :
          /\ db_districts[i].name # ""
          /\ \E p \in 1..Len(db_provinces) :
                /\ db_provinces[p].id = db_districts[i].province
                /\ \E j \in 1..Len(db_provinces[p].district) :
                      db_provinces[p].district[j] = db_districts[i].key
          /\ \A j \in 1..Len(db_districts[i].ward) : Has(db_wards, db_districts[i].ward[j])
    /\ \A i \in 1..Len(db_wards) :
          /\ db_wards[i].name # ""
          /\ \E d \in 1..Len(db_districts) :
                /\ \E j \in 1..Len(db_districts[d].ward) :
                      db_districts[d].ward[j] = db_wards[i].key
                /\ \A e \in 1..Len(db_districts) :
                      (\E j \in 1..Len(db_districts[e].ward) :
                          db_districts[e].ward[j] = db_wards[i].key) => e = d

(***************************************************************************)
(* The claims                                                              *)
(***************************************************************************)
\* C1: hierarchical constraint.  When the district stage starts with a
\* province resolved, the district it resolves is one listed under that
\* province; and when no alias of a district of that province occurs (followed
\* by a terminator), it resolves none and leaves the address as it is,
\* whatever aliases of other districts the address holds.
C1_HierarchicalConstraint ==
    [][(DistrictStep /\ founded_province # "") =>
          /\ founded_district' # "" => founded_district' \in OwnDistricts(founded_province)
          /\ (\A c \in Candidates(db_districts,
                                  Get(db_provinces, founded_province).district) :
                 Occurrences("anchored", address, c.word) = {})
             => (founded_district' = "" /\ address' = address)]_vars

\* C1 witness: a province is resolved, no district is, and the address still
\* holds an alias of some district of the gazetteer.
C1_Witness ==
    /\ pc = "ward"
    /\ founded_province # ""
    /\ founded_district = ""
    /\ \E w \in AllWords(db_districts) : Occurrences("plain", address, w) # {}

\* C2: parent inference.  When the district stage starts with no province
\* and resolves a district whose parent id is the id of a province, it sets
\* the province to that province; and the output stage turns the key of the
\* province into its canonical name.
C2_ParentInference ==
    [][/\ (DistrictStep /\ founded_province = "" /\ founded_district' # "") =>
             \A i \in 1..Len(db_provinces) :
                 db_provinces[i].id = Get(db_districts, founded_district').province
                 => founded_province' = db_provinces[i].key
       /\ (pc = "assemble" /\ founded_province # "") =>
             \E i \in 1..Len(db_provinces) :
                 /\ db_provinces[i].key = founded_province
                 /\ founded_province' = db_provinces[i].name]_vars

\* C2 witness: a result with a district and a province, for an input whose
\* normalized text holds no alias of any province.
C2_Witness ==
    /\ pc = "done"
    /\ founded_district # ""
    /\ founded_province # ""
    /\ \A w \in AllWords(db_provinces) :
          Occurrences("rfind", clean_full_address(input_address) \o ",", w) = {}

\* the alias a stage has kept occurs more than once in the address it read
OccursTwice == Cardinality(Occurrences("plain", address, choose_word')) >= 2

\* C3 as claimed: a stage whose winning alias occurs more than once in the
\* address removes its rightmost occurrence and changes nothing else.
C3_Original ==
    [][/\ (ProvinceStep /\ founded_province' # "" /\ OccursTwice) =>
             address' = Cut(address, RightmostOccurrence("rfind", address, choose_word'),
                            Len(choose_word'))
       /\ (DistrictStep /\ founded_district' # "" /\ OccursTwice) =>
             address' = Cut(address, RightmostOccurrence("rfind", address, choose_word'),
                            Len(choose_word'))
       /\ (WardStep /\ founded_ward' # "" /\ OccursTwice) =>
             address' = Cut(address, RightmostOccurrence("rfind", address, choose_word'),
                            Len(choose_word'))]_vars

\* addr without the fragment "Thanh Pho ," that ends it, if it ends with it
WithoutCityFragment(addr) ==
    IF EndsWith(addr, "Thanh Pho ,")
    THEN SubSeq(addr, 1, Len(addr) - Len("Thanh Pho ,"))
    ELSE addr

\* C3 as amended: a stage whose winning alias occurs more than once in the
\* address removes its rightmost occurrence and changes nothing else, except
\* that the province stage also drops the fragment "Thanh Pho ," when the
\* address ends with it after the removal.
C3_SingleOccurrenceRemoval ==
    [][/\ (ProvinceStep /\ founded_province' # "" /\ OccursTwice) =>
             address' = WithoutCityFragment(
                            Cut(address, RightmostOccurrence("rfind", address, choose_word'),
                                Len(choose_word')))
       /\ (DistrictStep /\ founded_district' # "" /\ OccursTwice) =>
             address' = Cut(address, RightmostOccurrence("rfind", address, choose_word'),
                            Len(choose_word'))
       /\ (WardStep /\ founded_ward' # "" /\ OccursTwice) =>
             address' = Cut(address, RightmostOccurrence("rfind", address, choose_word'),
                            Len(choose_word'))]_vars

\* C3 witness: the province stage has removed its alias, an earlier
\* occurrence of the alias is still in the address, and the fragment
\* "Thanh Pho ," has gone with the sentinel.
C3_Witness ==
    /\ pc = "district"
    /\ founded_province # ""
    /\ Occurrences("plain", address, choose_word) # {}
    /\ ~EndsWith(address, ",")

\* C4: the level-matching rule.  Each stage keeps the owner of the alias
\* whose last (rightmost) occurrence in the address starts furthest right,
\* the longer alias when two start at the same place, the one scanned first
\* when they are as long, and no unit when no alias occurs.
C4_LevelMatchingRule ==
    [][/\ ProvinceStep =>
             RuleHolds("rfind", address, Candidates(db_provinces, Keys(db_provinces)),
                       founded_province', choose_word', largest_index')
       /\ (DistrictStep /\ founded_province # "") =>
             RuleHolds("anchored", address,
                       Candidates(db_districts, Get(db_provinces, founded_province).district),
                       founded_district', choose_word', largest_index')
       /\ (DistrictStep /\ founded_province = "") =>
             RuleHolds("plain", address, Candidates(db_districts, Keys(db_districts)),
                       founded_district', choose_word', largest_index')
       /\ WardStep =>
             RuleHolds("anchored", address,
                       Candidates(db_wards, Get(db_districts, founded_district).ward),
                       founded_ward', choose_word', largest_index')]_vars

\* C5: scenario C.  For an input whose normalized text holds no alias of any
\* unit, the result has no province, district or ward, and the remainder is
\* the normalized input, without the sentinel comma.
C5_ScenarioC ==
    pc = "done" =>
        \A normalized \in {clean_full_address(input_address)} :
            NoAlias(normalized \o ",") =>
                /\ founded_province = ""
                /\ founded_district = ""
                /\ founded_ward = ""
                /\ address = normalized

\* C6: idempotence.  What clean_full_address returns for its own result is
\* that result.
C6_Idempotence ==
    (call = 2 /\ step = NumCleanSteps + 1) => text = first_result

\* C7: a missing gazetteer entry is not fatal: parse_address never raises.
C7_NeverRaises == pc # "raised"

\* the order of the stages
StageOrder ==
    {<<"start", "province">>, <<"province", "district">>, <<"district", "ward">>,
     <<"ward", "assemble">>, <<"assemble", "done">>,
     <<"district", "raised">>, <<"ward", "raised">>}

\* C8: stage ordering without backtracking.  The stages run in the order
\* province, district, ward; the ward stage searches only when a district is
\* resolved; and neither the district stage nor the ward stage replaces or
\* clears a province or a district an earlier stage chose.
C8_StageOrdering ==
    [][/\ pc' # pc => <<pc, pc'>> \in StageOrder
       /\ (pc = "ward" /\ founded_district = "") =>
             (founded_ward' = "" /\ largest_index' = -1 /\ address' = address)
       /\ (pc \in {"district", "ward"} /\ founded_province # "") =>
             founded_province' = founded_province
       /\ pc = "ward" => founded_district' = founded_district]_vars

\* C8 witness: the ward stage has run for a resolved district and found no
\* ward, and the province and the district are still there.
C8_Witness ==
    /\ pc = "assemble"
    /\ founded_province # ""
    /\ founded_district # ""
    /\ founded_ward = ""

\* C9: removal consumes the matched occurrence.  Where a match needs the
\* terminator (the district stage of a resolved province, the ward stage),
\* the text removed is the alias at the winning match index.
C9_RemovalAtMatchIndex ==
    [][/\ (DistrictStep /\ founded_province # "" /\ founded_district' # "") =>
             address' = Cut(address, largest_index', Len(choose_word'))
       /\ (WardStep /\ founded_ward' # "") =>
             address' = Cut(address, largest_index', Len(choose_word'))]_vars

\* C10: consistency of the triple.  For a strict-tree gazetteer, a result
\* with a ward has a district that lists that ward, and a result with a
\* district has the province that is the district's parent.
C10_ConsistentTriple ==
    (pc = "done" /\ StrictTree) =>
        /\ founded_ward # "" =>
              /\ founded_district # ""
              /\ \E d \in 1..Len(db_districts) :
                    /\ db_districts[d].name = founded_district
                    /\ \E j \in 1..Len(db_districts[d].ward) :
                          GetName(db_wards, db_districts[d].ward[j]) = founded_ward
        /\ founded_district # "" =>
              /\ founded_province # ""
              /\ \E d \in 1..Len(db_districts) :
                    /\ db_districts[d].name = founded_district
                    /\ \E p \in 1..Len(db_provinces) :
                          /\ db_provinces[p].name = founded_province
                          /\ db_provinces[p].id = db_districts[d].province

\* C10 witness: a result with a ward for a strict-tree gazetteer.
C10_Witness == pc = "done" /\ StrictTree /\ founded_ward # ""

====
